---- MODULE Spec2Model ----
(***************************************************************************)
(* State-machine model of the SyracuseDataAPI client                       *)
(* (src/data_ingestion/arcgis_api.py): the request executor                *)
(* (_make_request, fetch_records), the pagination driver                   *)
(* (fetch_all_records), the field metadata fetch (get_field_info) and the  *)
(* final persistence step (save_raw_data).                                 *)
(*                                                                         *)
(* The remote ArcGIS service is the environment.  It is either a finite    *)
(* unchanging dataset that is served faithfully by offset and count, or an *)
(* unconstrained service that answers each request with any of: a timeout, *)
(* a transport failure, a non-2xx status, an undecodable body, a JSON body  *)
(* that is not an object, an error envelope, or a page of at most          *)
(* resultRecordCount rows.                                                 *)
(***************************************************************************)
EXTENDS Integers, Sequences, FiniteSets, TLC

VARIABLES
    timeout,        \* self.timeout
    field_names,    \* self._field_names
    remote,         \* the remote service (environment)
    pc,             \* position of the caller: idle, fetching, done, failed, returned, saved
    batch_size,     \* fetch_all_records argument
    max_records,    \* fetch_all_records argument (None or an integer)
    save_raw,       \* fetch_all_records argument
    all_data,       \* fetch_all_records local: list of pages
    offset,         \* fetch_all_records local
    batch_num,      \* fetch_all_records local
    requests,       \* history: every query sent, with the limit asked by the caller
    received,       \* history: the answer of the remote to every query
    sleeps,         \* history: number of time.sleep(0.5) pauses taken
    result,         \* value returned by the last operation (None while none returned)
    raised,         \* exception that escaped the last operation (None if it returned)
    field_info,     \* value returned by the last get_field_info (None before any)
    metadata_failed,\* history: the try block of the last get_field_info raised
    saved_df,       \* history: the table given to save_raw_data (None before any)
    saved_path,     \* value returned by save_raw_data (None while none returned)
    dirs,           \* file system: directories created
    files           \* file system: path -> content

vars == <<timeout, field_names, remote, pc, batch_size, max_records, save_raw,
          all_data, offset, batch_num, requests, received, sleeps, result,
          raised, field_info, metadata_failed, saved_df, saved_path, dirs, files>>

(***************************************************************************)
(* Bounds of the model.                                                    *)
(***************************************************************************)
MaxBatch == 2       \* small batch sizes are 1..MaxBatch
MaxRows == 5        \* small datasets hold 0..MaxRows rows
MaxCap == 3         \* small max_records caps are 0..MaxCap
MaxPage == 2        \* longest page the unconstrained remote returns
MaxRequests == 3    \* requests of one run against the unconstrained remote

(***************************************************************************)
(* Program constants.                                                      *)
(***************************************************************************)
MaxRecordCount == 2000      \* min(limit, 2000)
DefaultTimeout == 30        \* __init__(timeout=30)

(***************************************************************************)
(* Python values.  Optional[x] is the empty or the one-element sequence.   *)
(***************************************************************************)
None == <<>>
Some(x) == <<x>>
IsNone(o) == Len(o) = 0
Min(a, b) == IF a <= b THEN a ELSE b

\* Python truthiness of an Optional[int]: None and 0 are falsy.
Truthy(o) == (~IsNone(o)) /\ o[1] # 0

(***************************************************************************)
(* Inputs of the callers and datasets of the remote.  Besides the small    *)
(* values, the sizes around the provider ceiling are kept at their real    *)
(* magnitude.                                                              *)
(***************************************************************************)
HalfCount == MaxRecordCount \div 2
LargeBatches == {HalfCount, MaxRecordCount, MaxRecordCount + 1}
BatchSizes == (1..MaxBatch) \cup LargeBatches
Caps == {None} \cup {Some(n) : n \in 0..MaxCap} \cup {Some(HalfCount)}
LargeCaps == {None, Some(0), Some(HalfCount)}
LargeDatasets == {2 * MaxRecordCount + 437}
DatasetSizes == (0..MaxRows) \cup LargeDatasets

\* The runs against a large dataset use the large batch sizes and caps only.
IsLarge(rem) == rem.kind = "dataset" /\ rem.rows \in LargeDatasets

Remotes == {[kind |-> "dataset", rows |-> n] : n \in DatasetSizes}
               \cup {[kind |-> "any", rows |-> 0]}

(***************************************************************************)
(* The remote service.  A raw row is identified by its 1-based position in *)
(* the dataset; a feature of the JSON envelope wraps it as its attributes. *)
(***************************************************************************)
Feature(row) == [attributes |-> row]
Features(rows) == [i \in 1..Len(rows) |-> Feature(rows[i])]

\* Rows o+1 .. min(o+c, n) of a dataset of n rows.
DatasetPage(n, o, c) ==
    IF o >= n \/ c <= 0 THEN <<>> ELSE [i \in 1..(Min(o + c, n) - o) |-> o + i]

\* Pages of the unconstrained remote: l rows counted up from the offset, or
\* l rows counted down to 1 whatever the offset (unsorted, repeated across pages).
Ascending(o, l) == [i \in 1..l |-> o + i]
Descending(l) == [i \in 1..l |-> l + 1 - i]
AnyPages(o, c) ==
    {Ascending(o, l) : l \in 0..Min(c, MaxPage)}
        \cup {Descending(l) : l \in 0..Min(c, MaxPage)}

ErrorPayload == [code |-> 400, message |-> "Invalid query parameters"]

JsonBody(err, feats) == [kind |-> "json", error |-> err, features |-> feats]

\* What the HTTP GET of one query can come back with.
Answers(rem, params) ==
    IF rem.kind = "dataset"
    THEN {JsonBody(None, Some(Features(DatasetPage(rem.rows, params.resultOffset,
                                                    params.resultRecordCount))))}
    ELSE {[kind |-> "timeout"],
          [kind |-> "connection", message |-> "Connection reset by peer"],
          [kind |-> "http", message |-> "500 Server Error"],
          [kind |-> "garbled"],
          [kind |-> "array"],
          JsonBody(None, None),
          JsonBody(Some(ErrorPayload), None),
          JsonBody(Some(ErrorPayload),
                   Some(Features(Ascending(params.resultOffset,
                                           Min(params.resultRecordCount, MaxPage)))))}
         \cup {JsonBody(None, Some(Features(p))) :
                  p \in AnyPages(params.resultOffset, params.resultRecordCount)}

(***************************************************************************)
(* Request Builder/Executor.                                               *)
(***************************************************************************)
Exception(prefix, detail) == [type |-> "Exception", prefix |-> prefix, detail |-> detail]
Returned(v) == [ok |-> TRUE, value |-> v, exc |-> None]
Raised(e) == [ok |-> FALSE, value |-> None, exc |-> Some(e)]

\* Mutant of RecordCount: the limit is sent as asked, without the ceiling.
RecordCount_Unclamped(limit) == limit

\* 'resultRecordCount': min(limit, 2000)
RecordCount(limit) == Min(limit, MaxRecordCount)

\* params of fetch_records (fields=None, return_geometry=False, order_by=None)
QueryParams(limit, off, where_clause) ==
    [where |-> where_clause,
     outFields |-> "*",
     returnGeometry |-> "false",
     f |-> "json",
     resultOffset |-> off,
     resultRecordCount |-> RecordCount(limit)]

\* _make_request: the outcomes of one GET.  response.json() of an undecodable
\* body raises a RequestException subclass in requests >= 2.27 and a plain
\* ValueError before: both outcomes are possible.
MakeRequest(tmo, answer) ==
    CASE answer.kind = "timeout" ->
            {Raised(Exception("Request timed out after ", ToString(tmo)))}
      [] answer.kind \in {"connection", "http"} ->
            {Raised(Exception("API request failed: ", answer.message))}
      [] answer.kind = "garbled" ->
            {Raised(Exception("API request failed: ", "Expecting value")),
             Raised([type |-> "ValueError", prefix |-> "", detail |-> "Expecting value"])}
      [] OTHER -> {Returned(answer)}

EmptyFrame == <<>>

\* Mutant of HasError: the error key counts only when no features came with it.
HasError_UnlessFeatures(data) ==
    data.kind = "json" /\ (~IsNone(data.error)) /\ IsNone(data.features)

\* 'error' in data: a key of a JSON object; False for a JSON array
HasError(data) == data.kind = "json" /\ ~IsNone(data.error)

\* data.get on a JSON array
AttributeError ==
    [type |-> "AttributeError", prefix |-> "",
     detail |-> "'list' object has no attribute 'get'"]

\* Mutant of DecodeRecords: a body without features is reported as a failure.
DecodeRecords_RaiseOnEmpty(data) ==
    IF data.kind = "json" /\ ~IsNone(data.error)
    THEN Raised(Exception("API Error: ", data.error[1]))
    ELSE IF data.kind = "array"
    THEN Raised(AttributeError)
    ELSE LET features == IF IsNone(data.features) THEN <<>> ELSE data.features[1]
         IN  IF Len(features) = 0
             THEN Raised(Exception("No records found.", ""))
             ELSE Returned([i \in 1..Len(features) |-> features[i].attributes])

\* fetch_records after _make_request returned data
DecodeRecords(data) ==
    IF HasError(data)
    THEN Raised(Exception("API Error: ", data.error[1]))
    ELSE IF data.kind = "array"
    THEN Raised(AttributeError)
    ELSE LET features == IF IsNone(data.features) THEN <<>> ELSE data.features[1]
         IN  IF Len(features) = 0
             THEN Returned(EmptyFrame)
             ELSE Returned([i \in 1..Len(features) |-> features[i].attributes])

\* Mutant of FetchRecords: a failed request is reported as an empty page.
FetchRecords_Swallow(tmo, answer) ==
    {IF o.ok THEN DecodeRecords(o.value) ELSE Returned(EmptyFrame) :
        o \in MakeRequest(tmo, answer)}

\* fetch_records: outcomes for one answer of the remote
FetchRecords(tmo, answer) ==
    {IF o.ok THEN DecodeRecords(o.value) ELSE o : o \in MakeRequest(tmo, answer)}

\* df.empty
IsEmpty(df) == Len(df) = 0

(***************************************************************************)
(* Pagination Driver.                                                      *)
(***************************************************************************)
RECURSIVE Flatten(_)
Flatten(pages) ==
    IF Len(pages) = 0 THEN <<>> ELSE Flatten(SubSeq(pages, 1, Len(pages) - 1)) \o pages[Len(pages)]

\* Mutant of Concat: each page is put in front of the pages fetched before it.
RECURSIVE Concat_Prepend(_)
Concat_Prepend(pages) ==
    IF Len(pages) = 0 THEN <<>>
    ELSE pages[Len(pages)] \o Concat_Prepend(SubSeq(pages, 1, Len(pages) - 1))

\* pd.concat(all_data, ignore_index=True)
Concat(pages) == Flatten(pages)

\* The value fetch_all_records returns after its loop: pd.DataFrame() without
\* annotations when no page was kept, else the concatenation with its attrs.
Combined(pages) ==
    IF Len(pages) = 0
    THEN [rows |-> EmptyFrame, attrs |-> None]
    ELSE LET df_combined == Concat(pages)
         IN  [rows |-> df_combined,
              attrs |-> Some([extraction_timestamp |-> "now",
                              total_records |-> Len(df_combined)])]

\* Mutant of CapReached: the cap never ends the run.
CapReached_Never(cap, off) == FALSE

\* max_records and offset >= max_records
CapReached(cap, off) == Truthy(cap) /\ off >= cap[1]

\* Mutant of ShortPage: the length of a page never ends the run.
ShortPage_Never(df_batch, size) == FALSE

\* Mutant of ShortPage: a full page ends the run too.
ShortPage_OrFull(df_batch, size) == Len(df_batch) <= size

\* len(df_batch) < batch_size
ShortPage(df_batch, size) == Len(df_batch) < size

\* Mutant of NextOffset: the offset counts the pages fetched, not their rows.
NextOffset_CountPages(off, df_batch) == off + 1

\* offset += len(df_batch)
NextOffset(off, df_batch) == off + Len(df_batch)

\* Mutant of Pauses: the pause is taken after the page that ends the run too.
Pauses_Always(n, stop) == n + 1

\* time.sleep(0.5) at the end of the loop body, which a break skips
Pauses(n, stop) == IF stop THEN n ELSE n + 1

\* Paths are sequences of string tokens; ".csv" is always a token of its own.
OutputDir == <<"data/raw">>
PathJoin(dir, name) == dir \o <<"/">> \o name
Digit(n, p) == ToString((n \div p) % 10)
\* Mutant of BatchFileName: every page goes to the file of batch 0.
BatchFileName_Fixed(n) == <<"raw_batch_", "0", "0", "0", "0", ".csv">>

\* f"raw_batch_{batch_num:04d}.csv"
BatchFileName(n) ==
    <<"raw_batch_">>
        \o (IF n >= 10000 THEN <<ToString(n)>>
            ELSE <<Digit(n, 1000), Digit(n, 100), Digit(n, 10), Digit(n, 1)>>)
        \o <<".csv">>

\* The attributes of a row: its Id, and a Created_at_local value that stands
\* for the timestamp string in its (lexicographic) order.
CreatedColumn == "Created_at_local"
Stamp(row) == (row * 7) % 10

\* The frame of fetched rows as a table: pd.DataFrame(records) has the
\* attribute names as columns, and no column at all when there is no row.
AsTable(rows) ==
    [columns |-> IF Len(rows) = 0 THEN <<>> ELSE <<"Id", CreatedColumn>>,
     cells |-> [i \in 1..Len(rows) |-> <<rows[i], Stamp(rows[i])>>]]

\* df.to_csv(path, index=False): the header and one line of text cells per row
TableCsv(df) ==
    [format |-> "csv",
     header |-> df.columns,
     lines |-> [i \in 1..Len(df.cells) |->
                   [j \in 1..Len(df.cells[i]) |-> ToString(df.cells[i][j])]]]

\* df_batch.to_csv(batch_file, index=False)
PageCsv(df) == TableCsv(AsTable(df))

WriteFile(fs, path, content) ==
    [p \in (DOMAIN fs) \cup {path} |-> IF p = path THEN content ELSE fs[p]]

\* fetch_all_records up to the loop
StartFetchAll(b, cap, s) ==
    /\ pc = "idle"
    /\ IsLarge(remote) => (b \in LargeBatches /\ cap \in LargeCaps)
    /\ pc' = "fetching"
    /\ batch_size' = b
    /\ max_records' = cap
    /\ save_raw' = s
    /\ all_data' = <<>>
    /\ offset' = 0
    /\ batch_num' = 0
    /\ dirs' = IF s THEN dirs \cup {OutputDir} ELSE dirs
    /\ result' = None
    /\ raised' = None
    /\ UNCHANGED <<timeout, field_names, remote, requests, received, sleeps, files,
                   field_info, metadata_failed, saved_df, saved_path>>

\* One iteration of the while loop: the query, the answer, and what the loop
\* does with it up to the next query or to the return.
FetchPage ==
    /\ pc = "fetching"
    /\ (remote.kind = "any") => Len(requests) < MaxRequests
    /\ LET params == QueryParams(batch_size, offset, "1=1")
       IN  \E answer \in Answers(remote, params) :
           \E out \in FetchRecords(timeout, answer) :
             /\ requests' = Append(requests, [limit |-> batch_size, params |-> params])
             /\ received' = Append(received, answer)
             /\ IF ~out.ok
                THEN /\ pc' = "failed"
                     /\ raised' = out.exc
                     /\ UNCHANGED <<all_data, offset, batch_num, files, sleeps, result>>
                ELSE IF IsEmpty(out.value)
                THEN /\ pc' = "done"
                     /\ result' = Some(Combined(all_data))
                     /\ UNCHANGED <<all_data, offset, batch_num, files, sleeps, raised>>
                ELSE LET df_batch == out.value
                         pages == Append(all_data, df_batch)
                         off == NextOffset(offset, df_batch)
                         stop == CapReached(max_records, off)
                                    \/ ShortPage(df_batch, batch_size)
                     IN  /\ all_data' = pages
                         /\ files' = IF save_raw
                                     THEN WriteFile(files,
                                                    PathJoin(OutputDir, BatchFileName(batch_num)),
                                                    PageCsv(df_batch))
                                     ELSE files
                         /\ offset' = off
                         /\ batch_num' = batch_num + 1
                         /\ pc' = IF stop THEN "done" ELSE "fetching"
                         /\ result' = IF stop THEN Some(Combined(pages)) ELSE result
                         /\ sleeps' = Pauses(sleeps, stop)
                         /\ UNCHANGED raised
    /\ UNCHANGED <<timeout, field_names, remote, batch_size, max_records, save_raw, dirs,
                   field_info, metadata_failed, saved_df, saved_path>>

\* A direct call of fetch_records(limit=l, offset=o)
FetchRecordsCall(l, o) ==
    /\ pc = "idle"
    /\ IsLarge(remote) => (l \in LargeBatches /\ o = 0)
    /\ LET params == QueryParams(l, o, "1=1")
       IN  \E answer \in Answers(remote, params) :
           \E out \in FetchRecords(timeout, answer) :
             /\ requests' = Append(requests, [limit |-> l, params |-> params])
             /\ received' = Append(received, answer)
             /\ pc' = "returned"
             /\ result' = IF out.ok THEN Some([rows |-> out.value, attrs |-> None]) ELSE None
             /\ raised' = out.exc
    /\ UNCHANGED <<timeout, field_names, remote, batch_size, max_records, save_raw,
                   all_data, offset, batch_num, sleeps, dirs, files,
                   field_info, metadata_failed, saved_df, saved_path>>

(***************************************************************************)
(* Field Metadata Fetch.                                                   *)
(***************************************************************************)
Descriptor(n, t) == [name |-> n, type |-> t]
IdField == Descriptor(Some("Id"), Some("esriFieldTypeInteger"))
CreatedField == Descriptor(Some("Created_at_local"), Some("esriFieldTypeString"))

\* What the GET of the resource root can come back with: transport failures,
\* a body that is no JSON, a JSON array, and JSON objects without 'fields',
\* with 'fields': null, with well-formed descriptors and with descriptors
\* that lack their name or their type.
FieldList(state, l) == [state |-> state, list |-> l]
MetadataAnswers ==
    {[kind |-> "timeout"],
     [kind |-> "connection", message |-> "Connection reset by peer"],
     [kind |-> "http", message |-> "503 Service Unavailable"],
     [kind |-> "garbled"],
     [kind |-> "json", shape |-> "array", fields |-> FieldList("absent", <<>>)],
     [kind |-> "json", shape |-> "object", fields |-> FieldList("absent", <<>>)],
     [kind |-> "json", shape |-> "object", fields |-> FieldList("null", <<>>)]}
        \cup {[kind |-> "json", shape |-> "object", fields |-> FieldList("list", l)] :
                 l \in {<<>>,
                        <<IdField, CreatedField>>,
                        <<IdField, Descriptor(None, Some("esriFieldTypeString"))>>,
                        <<Descriptor(Some("Category"), None)>>}}

\* The try block of get_field_info: the field list, or the exception raised
\* by the transport, by response.json(), by data.get on a JSON array, by
\* iterating null, or by field['name'] / field['type'] in the print loop,
\* which runs before self._field_names is assigned.
FieldInfoBody(answer) ==
    CASE answer.kind = "timeout" -> Raised([type |-> "Timeout"])
      [] answer.kind = "connection" -> Raised([type |-> "ConnectionError"])
      [] answer.kind = "http" -> Raised([type |-> "HTTPError"])
      [] answer.kind = "garbled" -> Raised([type |-> "JSONDecodeError"])
      [] answer.shape = "array" -> Raised([type |-> "AttributeError"])
      [] answer.fields.state = "absent" -> Returned(<<>>)
      [] answer.fields.state = "null" -> Raised([type |-> "TypeError"])
      [] OTHER ->
            LET fields == answer.fields.list
            IN  IF \E i \in 1..Len(fields) : IsNone(fields[i].name) \/ IsNone(fields[i].type)
                THEN Raised([type |-> "KeyError"])
                ELSE Returned(fields)

\* Mutant of Caught: except requests.exceptions.RequestException as e
Caught_TransportOnly(e) == e.type \in {"Timeout", "ConnectionError", "HTTPError"}

\* except Exception as e
Caught(e) == e.type \in {"Timeout", "ConnectionError", "HTTPError", "JSONDecodeError",
                         "AttributeError", "TypeError", "KeyError"}

\* get_field_info: the value returned, the cache afterwards, what escapes
FieldInfo(cached, answer) ==
    LET out == FieldInfoBody(answer)
    IN  IF out.ok
        THEN [value |-> Some(out.value),
              names |-> Some([i \in 1..Len(out.value) |-> out.value[i].name[1]]),
              exc |-> None,
              failed |-> FALSE]
        ELSE IF Caught(out.exc[1])
        THEN [value |-> Some(<<>>), names |-> cached, exc |-> None, failed |-> TRUE]
        ELSE [value |-> None, names |-> cached, exc |-> out.exc, failed |-> TRUE]

GetFieldInfo ==
    /\ pc = "idle"
    /\ \E answer \in MetadataAnswers :
         LET r == FieldInfo(field_names, answer)
         IN  /\ field_info' = r.value
             /\ field_names' = r.names
             /\ raised' = r.exc
             /\ metadata_failed' = r.failed
    /\ UNCHANGED <<timeout, remote, pc, batch_size, max_records, save_raw, all_data,
                   offset, batch_num, requests, received, sleeps, result,
                   saved_df, saved_path, dirs, files>>

(***************************************************************************)
(* Persistence: save_raw_data.  A table is its column names and its cells, *)
(* row by row.  Cell values are integers; those of Created_at_local stand  *)
(* for the timestamp strings in their (lexicographic) order.               *)
(***************************************************************************)
MaxSaveRows == 2    \* rows of the tables given to save_raw_data directly
MaxStamp == 2       \* their Created_at_local values are 1..MaxStamp

ColumnLists == {<<>>, <<"Id">>, <<CreatedColumn>>, <<"Id", CreatedColumn>>,
                <<CreatedColumn, "Id">>}
MakeTable(cols, stamps) ==
    [columns |-> cols,
     cells |-> [i \in 1..Len(stamps) |->
                   [j \in 1..Len(cols) |-> IF cols[j] = CreatedColumn THEN stamps[i] ELSE i]]]
TableInputs ==
    {MakeTable(cols, stamps) :
        cols \in ColumnLists,
        stamps \in UNION {[1..n -> 1..MaxStamp] : n \in 0..MaxSaveRows}}

Filenames == {None,
              Some(<<"sample_raw_data", ".csv">>),
              Some(<<"export", ".txt">>),
              Some(<<"backup", ".csv", ".csv">>)}
OutputDirs == {OutputDir, <<"exports", ".csv", ".d">>}

\* f"syracuse_311_raw_{timestamp}.csv"
DefaultFileName == <<"syracuse_311_raw_", "20240101_120000", ".csv">>

\* 'Created_at_local' in df.columns
HasColumn(df, name) == \E j \in 1..Len(df.columns) : df.columns[j] = name
\* df[name]
Series(df, name) ==
    LET j == CHOOSE k \in 1..Len(df.columns) : df.columns[k] = name
    IN  [i \in 1..Len(df.cells) |-> df.cells[i][j]]
SeriesValues(col) == {col[i] : i \in 1..Len(col)}
\* Mutant of SeriesMin: the value of the first row is taken for the minimum.
SeriesMin_First(col) == IF Len(col) = 0 THEN None ELSE Some(col[1])

\* Series.min() and Series.max(): NaN (None here) for a column without rows
SeriesMin(col) ==
    IF Len(col) = 0 THEN None
    ELSE Some(CHOOSE v \in SeriesValues(col) : \A w \in SeriesValues(col) : v <= w)
SeriesMax(col) ==
    IF Len(col) = 0 THEN None
    ELSE Some(CHOOSE v \in SeriesValues(col) : \A w \in SeriesValues(col) : v >= w)
\* str(x)
Str(x) == IF IsNone(x) THEN "nan" ELSE ToString(x[1])

\* the metadata dictionary of save_raw_data
Metadata(df) ==
    [extraction_timestamp |-> "now",
     record_count |-> Len(df.cells),
     columns |-> df.columns,
     date_range |->
        [min |-> IF HasColumn(df, CreatedColumn)
                 THEN Some(Str(SeriesMin(Series(df, CreatedColumn)))) ELSE None,
         max |-> IF HasColumn(df, CreatedColumn)
                 THEN Some(Str(SeriesMax(Series(df, CreatedColumn)))) ELSE None]]

\* json.dump(metadata, f, indent=2)
MetadataJson(md) == [format |-> "json", value |-> md]

\* str.replace('.csv', '_metadata.json'): every occurrence, wherever it is
ReplaceCsv(path) ==
    [i \in 1..Len(path) |-> IF path[i] = ".csv" THEN "_metadata.json" ELSE path[i]]

\* metadata_file = filepath.replace('.csv', '_metadata.json')
MetadataFile(filepath) == ReplaceCsv(filepath)

SaveRawData(df, filename, output_dir) ==
    /\ LET name == IF IsNone(filename) THEN DefaultFileName ELSE filename[1]
           filepath == PathJoin(output_dir, name)
           metadata_file == MetadataFile(filepath)
           written == WriteFile(files, filepath, TableCsv(df))
           \* open(metadata_file, 'w') needs the directory of metadata_file
           opened == ReplaceCsv(output_dir) \in dirs'
       IN  /\ dirs' = dirs \cup {output_dir}
           /\ saved_df' = Some(df)
           /\ IF opened
              THEN /\ files' = WriteFile(written, metadata_file, MetadataJson(Metadata(df)))
                   /\ saved_path' = Some(filepath)
                   /\ raised' = None
              ELSE /\ files' = written
                   /\ saved_path' = None
                   /\ raised' = Some([type |-> "FileNotFoundError"])
    /\ pc' = "saved"
    /\ UNCHANGED <<timeout, field_names, remote, batch_size, max_records, save_raw,
                   all_data, offset, batch_num, requests, received, sleeps, result,
                   field_info, metadata_failed>>

\* save_raw_data of any table, by a caller that has fetched nothing
SaveTable ==
    /\ pc = "idle"
    /\ \E df \in TableInputs, filename \in Filenames, output_dir \in OutputDirs :
         SaveRawData(df, filename, output_dir)

\* save_raw_data of the frame that fetch_all_records or fetch_records returned
SaveResult ==
    /\ pc \in {"done", "returned"}
    /\ ~IsNone(result)
    /\ ~IsLarge(remote)
    /\ \E filename \in {None, Some(<<"sample_raw_data", ".csv">>)} :
         SaveRawData(AsTable(result[1].rows), filename, OutputDir)

Init ==
    /\ timeout = DefaultTimeout
    /\ field_names = None
    /\ remote \in Remotes
    /\ pc = "idle"
    /\ batch_size = MaxRecordCount
    /\ max_records = None
    /\ save_raw = FALSE
    /\ all_data = <<>>
    /\ offset = 0
    /\ batch_num = 0
    /\ requests = <<>>
    /\ received = <<>>
    /\ sleeps = 0
    /\ result = None
    /\ raised = None
    /\ field_info = None
    /\ metadata_failed = FALSE
    /\ saved_df = None
    /\ saved_path = None
    /\ dirs = {}
    /\ files = <<>>

Next ==
    \/ \E b \in BatchSizes, cap \in Caps, s \in BOOLEAN : StartFetchAll(b, cap, s)
    \/ FetchPage
    \/ \E l \in BatchSizes, o \in 0..1 : FetchRecordsCall(l, o)
    \/ GetFieldInfo
    \/ SaveTable
    \/ SaveResult

Spec == Init /\ [][Next]_vars

\* The while loop of fetch_all_records does not stall: each iteration sleeps
\* 0.5 s at most and its request returns or times out after self.timeout.
FairSpec == Spec /\ WF_vars(FetchPage)

(***************************************************************************)
(* Properties.                                                             *)
(***************************************************************************)
\* The caller is inside, or at the end of, a run of fetch_all_records.
InRun == pc \in {"fetching", "done", "failed"}
ExampleRows == 2 * MaxRecordCount + 437

\* C1: against a faithful remote holding N rows, without a cap and with a
\* batch size B of at most 2000, a finished run has issued exactly
\* floor(N/B)+1 queries, at offsets 0, B, 2B, ... in that order, each asking
\* for B rows, and has returned exactly rows 1..N in dataset order.
C1_FaithfulPagination ==
    (pc = "done" /\ remote.kind = "dataset" /\ IsNone(max_records)
        /\ batch_size <= MaxRecordCount)
    => /\ Len(requests) = (remote.rows \div batch_size) + 1
       /\ \A i \in 1..Len(requests) :
             /\ requests[i].params.resultOffset = (i - 1) * batch_size
             /\ requests[i].params.resultRecordCount = batch_size
       /\ result[1].rows = [i \in 1..remote.rows |-> i]

\* Witness of C1: pages of 2000, 2000 and 437 rows fetched by 3 queries.
C1_Witness ==
    /\ pc = "done"
    /\ remote = [kind |-> "dataset", rows |-> ExampleRows]
    /\ IsNone(max_records)
    /\ batch_size = MaxRecordCount
    /\ Len(requests) = 3
    /\ [i \in 1..3 |-> requests[i].params.resultOffset]
          = <<0, MaxRecordCount, 2 * MaxRecordCount>>
    /\ [i \in 1..3 |-> Len(all_data[i])] = <<MaxRecordCount, MaxRecordCount, 437>>
    /\ Len(result[1].rows) = ExampleRows

\* C2: every query sent by fetch_records, in a pagination run or in a direct
\* call, carries resultRecordCount = min(limit, 2000), which is at most 2000.
C2_RecordCountClamped ==
    \A i \in 1..Len(requests) :
        LET sent == requests[i].params.resultRecordCount
            limit == requests[i].limit
        IN  /\ sent <= MaxRecordCount
            /\ (limit <= MaxRecordCount => sent = limit)
            /\ (limit > MaxRecordCount => sent = MaxRecordCount)

\* Witness of C2: a run with a batch size above 2000 has sent a query.
C2_Witness ==
    /\ InRun
    /\ batch_size > MaxRecordCount
    /\ Len(requests) >= 1
    /\ requests[1].limit = batch_size
    /\ requests[1].params.resultRecordCount = MaxRecordCount


\* C3: when the caller sets a max_records cap, the returned Accumulated
\* Result holds at most max_records + batch_size - 1 rows.
C3_SoftCapBound ==
    (pc = "done" /\ ~IsNone(max_records))
    => Len(result[1].rows) <= max_records[1] + batch_size - 1

\* C4: when a cap is set and the rows accumulated after an appended page
\* reach or exceed it, the run is Done: it neither issues a further query
\* nor is it still in its loop.
C4_CapStopsRun ==
    (pc \in {"fetching", "failed"} /\ ~IsNone(max_records) /\ Len(all_data) > 0)
    => offset < max_records[1]

\* The answer is a decoded body without an error key and without any feature.
EmptyPage(answer) ==
    /\ answer.kind = "json"
    /\ IsNone(answer.error)
    /\ (IsNone(answer.features) \/ Len(answer.features[1]) = 0)

\* pd.DataFrame(): no row and no annotation
ExplicitlyEmpty == [rows |-> <<>>, attrs |-> None]

\* C5: an empty page ends the run at once and normally: it is the last answer
\* of the run, the run is Done and nothing was raised; when it is the first
\* answer, exactly one query was issued and the explicitly empty result is
\* returned.
C5_EmptyPageEndsRun ==
    InRun =>
      \A i \in 1..Len(received) :
         EmptyPage(received[i])
         => /\ i = Len(received)
            /\ Len(requests) = i
            /\ pc = "done"
            /\ IsNone(raised)
            /\ (i = 1 => result = Some(ExplicitlyEmpty))

\* Witness of C5: the first answer of a run was an empty page.
C5_Witness ==
    /\ pc = "done"
    /\ Len(received) = 1
    /\ EmptyPage(received[1])
    /\ result = Some(ExplicitlyEmpty)

\* The answer is a decoded body with a top-level error key.
ErrorEnvelope(answer) == answer.kind = "json" /\ ~IsNone(answer.error)

\* C6: a decoded body with an error key makes fetch_records raise the API
\* error carrying the embedded payload, with or without features in the body;
\* no frame is returned, and the query is the last one.
C6_ErrorEnvelopeRaises ==
    (InRun \/ pc = "returned") =>
      \A i \in 1..Len(received) :
         ErrorEnvelope(received[i])
         => /\ i = Len(received)
            /\ pc \in {"failed", "returned"}
            /\ IsNone(result)
            /\ raised = Some([type |-> "Exception", prefix |-> "API Error: ",
                               detail |-> received[i].error[1]])

\* Witness of C6: an error envelope that also carries features was received.
C6_Witness ==
    /\ pc \in {"failed", "returned"}
    /\ Len(received) >= 1
    /\ ErrorEnvelope(received[Len(received)])
    /\ ~IsNone(received[Len(received)].features)
    /\ Len(received[Len(received)].features[1]) > 0
    /\ ~IsNone(raised)

\* The answer makes the page request fail.
FailedRequest(answer) ==
    answer.kind \in {"timeout", "connection", "http", "garbled", "array"}
        \/ ErrorEnvelope(answer)

\* C7: a failed page request is fatal to the run wherever it occurs: it is
\* the last query of the run (no retry, no further query), no pause follows
\* it, the failure is raised and no Accumulated Result is returned.
C7_FailureIsFatal ==
    InRun =>
      /\ \A i \in 1..Len(received) :
            FailedRequest(received[i])
            => /\ i = Len(received)
               /\ Len(requests) = i
               /\ pc = "failed"
               /\ ~IsNone(raised)
               /\ IsNone(result)
               /\ sleeps = i - 1
      /\ (pc = "failed" => FailedRequest(received[Len(received)]))

\* Witness of C7: a timeout after two pages had been appended.
C7_Witness ==
    /\ pc = "failed"
    /\ Len(all_data) = 2
    /\ received[Len(received)].kind = "timeout"
    /\ IsNone(result)

\* The rows of the page an answer carries (none for a failed request).
PageRows(answer) ==
    IF answer.kind = "json" /\ IsNone(answer.error) /\ ~IsNone(answer.features)
    THEN [j \in 1..Len(answer.features[1]) |-> answer.features[1][j].attributes]
    ELSE <<>>
\* Number of rows received in the first k answers.
RECURSIVE RowsBefore(_)
RowsBefore(k) == IF k = 0 THEN 0 ELSE RowsBefore(k - 1) + Len(PageRows(received[k]))

\* The returned rows are the received pages one after the other, row by row.
IsConcatenationOfPages(rows) ==
    /\ Len(rows) = RowsBefore(Len(received))
    /\ \A i \in 1..Len(received) :
          LET page == PageRows(received[i])
              base == RowsBefore(i - 1)
          IN  SubSeq(rows, base + 1, base + Len(page)) = page

\* C8 as stated: at Done the result is the concatenation of the non-empty
\* pages received, in request order and with the row order of each page kept,
\* and its total_records annotation equals its row count.
C8_AsStated ==
    pc = "done"
    => /\ IsConcatenationOfPages(result[1].rows)
       /\ ~IsNone(result[1].attrs)
       /\ result[1].attrs[1].total_records = Len(result[1].rows)

\* C8 amended: at Done the result is the concatenation of the non-empty pages
\* received, in request order and with the row order of each page kept; when
\* at least one non-empty page was received its total_records annotation
\* equals its row count, and when none was, the result is the empty frame
\* without any annotation.
C8_ConcatenationAtDone ==
    pc = "done"
    => /\ IsConcatenationOfPages(result[1].rows)
       /\ IF RowsBefore(Len(received)) = 0
          THEN IsNone(result[1].attrs)
          ELSE /\ ~IsNone(result[1].attrs)
               /\ result[1].attrs[1].total_records = Len(result[1].rows)

\* Witness of C8: a result of several pages whose rows are not in sorted order.
C8_Witness ==
    /\ pc = "done"
    /\ Len(all_data) >= 2
    /\ \E k \in 1..(Len(result[1].rows) - 1) : result[1].rows[k] >= result[1].rows[k + 1]
    /\ result[1].attrs[1].total_records = Len(result[1].rows)

\* C9: a get_field_info whose try block fails (timeout, transport failure,
\* non-2xx status, undecodable or malformed body) returns the empty list and
\* raises nothing; the cached field names and everything a pagination run
\* reads or writes are left as they were.
C9_FieldInfoFailureContained ==
    [][(GetFieldInfo /\ metadata_failed')
        => /\ field_info' = Some(<<>>)
           /\ raised' = None
           /\ field_names' = field_names
           /\ UNCHANGED <<timeout, remote, pc, batch_size, max_records, save_raw,
                          all_data, offset, batch_num, requests, received, sleeps,
                          result, saved_df, saved_path, dirs, files>>]_vars

\* Witness of C9: a metadata fetch failed after an earlier one had cached two
\* field names, and a pagination run started afterwards has completed.
C9_Witness ==
    /\ metadata_failed
    /\ field_info = Some(<<>>)
    /\ field_names = Some(<<"Id", "Created_at_local">>)
    /\ pc = "done"
    /\ Len(all_data) >= 1
    /\ IsNone(raised)

\* The metadata sidecars on disk.
Sidecars == {p \in DOMAIN files : files[p].format = "json"}

\* C10: after save_raw_data has returned, the sidecar written has
\* record_count equal to the row count of the table and columns equal to its
\* column names in order; when the table has a Created_at_local column with
\* rows, date_range min and max are the text of the least and of the greatest
\* value of that column (of pandas' NaN when the column has no row); when the
\* column is absent both are null.
C10_SidecarMatchesTable ==
    (pc = "saved" /\ IsNone(raised))
    => LET df == saved_df[1]
           n == Len(df.cells)
       IN  /\ Sidecars # {}
           /\ \A p \in Sidecars :
                 LET md == files[p].value
                 IN  /\ md.record_count = n
                     /\ md.columns = df.columns
                     /\ IF \E k \in 1..Len(df.columns) : df.columns[k] = "Created_at_local"
                        THEN LET k == CHOOSE c \in 1..Len(df.columns) :
                                         df.columns[c] = "Created_at_local"
                             IN  IF n = 0
                                 THEN /\ md.date_range.min = Some("nan")
                                      /\ md.date_range.max = Some("nan")
                                 ELSE \E lo \in 1..n, hi \in 1..n :
                                        /\ \A i \in 1..n :
                                              /\ df.cells[lo][k] <= df.cells[i][k]
                                              /\ df.cells[i][k] <= df.cells[hi][k]
                                        /\ md.date_range.min = Some(ToString(df.cells[lo][k]))
                                        /\ md.date_range.max = Some(ToString(df.cells[hi][k]))
                        ELSE /\ md.date_range.min = None
                             /\ md.date_range.max = None

\* Witness of C10: a saved table whose Created_at_local column is <<2, 1>>,
\* so that its minimum is not in its first row.
C10_Witness ==
    /\ pc = "saved"
    /\ IsNone(raised)
    /\ saved_df = Some(MakeTable(<<"Id", "Created_at_local">>, <<2, 1>>))
    /\ \E p \in Sidecars :
          /\ files[p].value.record_count = 2
          /\ files[p].value.date_range.min = Some("1")
          /\ files[p].value.date_range.max = Some("2")

\* Number of rows in the pages appended so far.
RECURSIVE RowsAppended(_)
RowsAppended(k) == IF k = 0 THEN 0 ELSE RowsAppended(k - 1) + Len(all_data[k])

\* C11: in every state of a pagination run the offset is the number of rows
\* appended so far (0 at Start); every query of the run was sent with the
\* offset equal to the rows of the pages received before it, so the offsets
\* of successive queries strictly increase and none is asked twice.
C11_OffsetCountsRows ==
    InRun =>
      /\ offset = RowsAppended(Len(all_data))
      /\ (Len(requests) = 0 => offset = 0)
      /\ \A i \in 1..Len(requests) :
            requests[i].params.resultOffset = RowsBefore(i - 1)
      /\ \A i \in 1..Len(requests) : \A j \in 1..Len(requests) :
            i < j => requests[i].params.resultOffset < requests[j].params.resultOffset

\* Witness of C11: three queries of one run against the unconstrained remote,
\* sent after pages of two rows each.
C11_Witness ==
    /\ InRun
    /\ remote.kind = "any"
    /\ Len(requests) = 3
    /\ [i \in 1..3 |-> requests[i].params.resultOffset] = <<0, 2, 4>>
    /\ offset >= 4

\* C12: a non-empty page with fewer rows than batch_size is appended and ends
\* the run: it is the last answer, no further query follows and the run is
\* Done, whatever the cap; after a page of exactly batch_size rows that
\* leaves the rows fetched below the cap (or without a cap) the run is not
\* over: it is in its loop on the way to the next query, or has sent it.
C12_ShortPageRule ==
    InRun =>
      \A i \in 1..Len(received) :
         LET page == PageRows(received[i])
         IN  /\ (Len(page) > 0 /\ Len(page) < batch_size)
                => /\ i = Len(received)
                   /\ Len(requests) = i
                   /\ pc = "done"
                   /\ all_data[Len(all_data)] = page
             /\ (Len(page) = batch_size
                    /\ (IsNone(max_records) \/ RowsBefore(i) < max_records[1]))
                => /\ Len(all_data) >= i
                   /\ all_data[i] = page
                   /\ (pc = "fetching" \/ Len(requests) > i)

\* Witness of C12: under a cap that is not reached, a full page was followed
\* by a further query, whose short page ended the run.
C12_Witness ==
    /\ pc = "done"
    /\ ~IsNone(max_records)
    /\ offset < max_records[1]
    /\ Len(all_data) >= 2
    /\ Len(all_data[1]) = batch_size
    /\ Len(all_data[Len(all_data)]) < batch_size
    /\ Len(requests) = Len(all_data)

\* The path of the batch file numbered n, and the batch files on disk.
BatchPath(n) == PathJoin(OutputDir, BatchFileName(n))
BatchFiles == {p \in DOMAIN files : files[p].format = "csv" /\ p[3] = "raw_batch_"}

\* The text lines of the batch files numbered 0..k-1, one file after the other.
RECURSIVE BatchLines(_)
BatchLines(k) == IF k = 0 THEN <<>> ELSE BatchLines(k - 1) \o files[BatchPath(k - 1)].lines

\* C13: with save_raw, in every state of a run (so before the next query is
\* sent) the batch files on disk are exactly those numbered 0..k-1 for the k
\* pages appended, file n holding page n+1; paths of different numbers
\* differ; at Done the files in number order hold exactly the rows of the
\* returned result.  Without save_raw there is no batch file.
C13_BatchFilesMirrorPages ==
    InRun =>
      IF save_raw
      THEN /\ batch_num = Len(all_data)
           /\ BatchFiles = {BatchPath(n) : n \in 0..(Len(all_data) - 1)}
           /\ Cardinality(BatchFiles) = Len(all_data)
           /\ \A n \in 0..(Len(all_data) - 1) :
                 files[BatchPath(n)] = PageCsv(all_data[n + 1])
           /\ (pc = "done" =>
                 BatchLines(Len(all_data)) = TableCsv(AsTable(result[1].rows)).lines)
      ELSE BatchFiles = {}

\* Witness of C13: a run with save_raw ended by a short page after a full
\* one; both pages are on disk, the short one in the file numbered 1.
C13_Witness ==
    /\ pc = "done"
    /\ save_raw
    /\ Len(all_data) = 2
    /\ Len(all_data[2]) < batch_size
    /\ BatchPath(1) \in DOMAIN files
    /\ Len(files[BatchPath(1)].lines) = Len(all_data[2])

\* C14: exactly one pause lies between two successive queries of a run and
\* none anywhere else: while the run is in its loop every query sent so far
\* has been followed by a pause, and once the run has ended (empty page,
\* short page, cap reached, or failure) its last query has not; outside a
\* run (a direct fetch_records call) no pause is taken.
C14_PauseBetweenRequests ==
    /\ (pc = "fetching" => sleeps = Len(requests))
    /\ (pc \in {"done", "failed"} => sleeps = Len(requests) - 1)
    /\ (pc \in {"idle", "returned"} => sleeps = 0)

\* Witness of C14: a run of three queries that ended with the cap reached
\* has taken two pauses.
C14_Witness ==
    /\ pc = "done"
    /\ Len(requests) = 3
    /\ Len(all_data) = 3
    /\ CapReached(max_records, offset)
    /\ ~ShortPage(all_data[3], batch_size)
    /\ sleeps = 2

\* The three failure kinds, told apart by the message of the Exception.
TimeoutKind(e) == e.type = "Exception" /\ e.prefix = "Request timed out after "
TransportKind(e) == e.type = "Exception" /\ e.prefix = "API request failed: "
ApiErrorKind(e) == e.type = "Exception" /\ e.prefix = "API Error: "

\* The kinds are assigned as stated: a timeout gives the timeout kind with
\* the configured duration, any other transport failure the transport kind
\* with its message, the API-error kind goes with an error key and with
\* nothing else, and a failure comes without a returned frame.
KindsAssigned ==
    (pc \in {"fetching", "done", "failed", "returned"} /\ Len(received) >= 1)
    => LET answer == received[Len(received)]
       IN  /\ answer.kind = "timeout"
                => /\ ~IsNone(raised)
                   /\ TimeoutKind(raised[1])
                   /\ raised[1].detail = ToString(timeout)
           /\ answer.kind \in {"connection", "http"}
                => /\ ~IsNone(raised)
                   /\ TransportKind(raised[1])
                   /\ raised[1].detail = answer.message
           /\ ((~IsNone(raised)) /\ ApiErrorKind(raised[1])) <=> ErrorEnvelope(answer)
           /\ (~IsNone(raised)) => (pc \in {"failed", "returned"} /\ IsNone(result))

\* C15: the kinds are assigned as stated and the taxonomy is closed: every
\* failure of a request is of one of the three kinds.
C15_ClosedTaxonomy ==
    /\ KindsAssigned
    /\ (pc \in {"failed", "returned"} /\ ~IsNone(raised))
       => (TimeoutKind(raised[1]) \/ TransportKind(raised[1]) \/ ApiErrorKind(raised[1]))

\* C16: after save_raw_data, whatever the filename and the output directory,
\* the call has returned the path of the tabular file, that file holds the
\* saved rows, and the sidecar is another file that holds the metadata.
C16_SidecarBesideTable ==
    pc = "saved"
    => /\ ~IsNone(saved_path)
       /\ saved_path[1] \in DOMAIN files
       /\ files[saved_path[1]].format = "csv"
       /\ files[saved_path[1]] = TableCsv(saved_df[1])
       /\ \E p \in Sidecars :
             /\ p # saved_path[1]
             /\ p = MetadataFile(saved_path[1])
             /\ files[p] = MetadataJson(Metadata(saved_df[1]))

\* C17: with a batch_size above 2000, without a cap and against a faithful
\* remote holding more than 2000 rows, the run goes on past its first page
\* of 2000 rows and returns every row of the dataset.
C17_ClampAgreesWithShortPage ==
    (pc = "done" /\ remote.kind = "dataset" /\ remote.rows > MaxRecordCount
        /\ IsNone(max_records) /\ batch_size > MaxRecordCount)
    => /\ Len(requests) > 1
       /\ result[1].rows = [i \in 1..remote.rows |-> i]

\* The runs C18 speaks of: no cap against a faithful dataset, or a cap of at
\* least 1 against any remote (of at most MaxRequests there, the number of
\* queries the unconstrained remote is followed for).
NoCapFaithful == IsNone(max_records) /\ remote.kind = "dataset"
CapSet == Truthy(max_records) /\ (remote.kind = "any" => max_records[1] <= MaxRequests)

\* C18: a run without a cap against a faithful dataset of N rows sends at
\* most floor(N / min(batch_size, 2000)) + 1 queries, a run with a cap of at
\* least 1 sends at most max_records queries whatever the answers are, and
\* every such run eventually is Done or has failed.
C18_RunTerminates ==
    /\ []((InRun /\ NoCapFaithful)
            => Len(requests) <= (remote.rows \div RecordCount(batch_size)) + 1)
    /\ []((InRun /\ Truthy(max_records)) => Len(requests) <= max_records[1])
    /\ ((pc = "fetching" /\ (NoCapFaithful \/ CapSet)) ~> (pc \in {"done", "failed"}))

\* Witness of C18: under a cap of 3 the unconstrained remote has answered
\* three queries with one row each, and the run is Done.
C18_Witness ==
    /\ pc = "done"
    /\ remote.kind = "any"
    /\ max_records = Some(3)
    /\ Len(requests) = 3
    /\ Len(all_data) = 3
    /\ \A i \in 1..3 : Len(all_data[i]) = 1
====
